---- MODULE Spec2Model ----
(***************************************************************************)
(* Car rental service (car_rental_app.py): the in-memory RentalService,    *)
(* its three id counters, and the Flask endpoints in front of it.          *)
(*                                                                         *)
(* Three specifications share the state:                                   *)
(*   SpecCore    - RentalService used as a class: add_user, add_car,       *)
(*                 book_car, list_cars, list_bookings called one at a time *)
(*                 with arbitrary typed arguments.                         *)
(*   Spec        - the server handling one HTTP request at a time.         *)
(*   SpecThreads - the server handling requests on concurrent threads;     *)
(*                 each handler advances statement by statement.           *)
(***************************************************************************)
EXTENDS Integers, Sequences, FiniteSets, TLC

VARIABLES
    users,                \* RentalService.users    : dict id -> User, in insertion order
    cars,                 \* RentalService.cars     : dict id -> Car,  in insertion order
    bookings,             \* RentalService.bookings : dict id -> Booking (the ledger)
    User_id_counter,      \* User._id_counter
    Car_id_counter,       \* Car._id_counter
    Booking_id_counter,   \* Booking._id_counter
    issued,               \* history: the ids the constructors assigned, per kind, in order
    call,                 \* the core call or HTTP request handled last (sequential specs)
    ret,                  \* what the core method returned or raised
    resp,                 \* the HTTP response of the last request
    thr                   \* SpecThreads: per thread, the handler's position and locals

vars == <<users, cars, bookings, User_id_counter, Car_id_counter,
          Booking_id_counter, issued, call, ret, resp, thr>>

store == <<users, cars, bookings, User_id_counter, Car_id_counter, Booking_id_counter>>

----------------------------------------------------------------------------
(* Bounds *)

MaxUsers    == 2      \* add_user is offered while User._id_counter <= MaxUsers
MaxBookings == 2      \* book_car is offered while Booking._id_counter <= MaxBookings
MaxDay      == 2      \* dates are days 1..MaxDay of the calendar below
MaxAddedCars == 1     \* SpecCore: add_car is offered this many times after the seed

Days == 1..MaxDay

(* The calendar: day d is the date string DateStr[d]. *)
DateStr == <<"2025-08-25", "2025-08-26", "2025-08-27", "2025-08-28",
             "2025-08-29", "2025-08-30", "2025-08-31", "2025-09-01">>

BadDate == "2025-08-32"

None == [none |-> TRUE]

----------------------------------------------------------------------------
(* datetime.strptime(s, "%Y-%m-%d"): the day of a well-formed date string,  *)
(* a ValueError otherwise.  strftime is the inverse table lookup.           *)

DayOf == [s \in {DateStr[d] : d \in DOMAIN DateStr}
            |-> CHOOSE d \in DOMAIN DateStr : DateStr[d] = s]

strptime(s) ==
    IF s \in DOMAIN DayOf
    THEN [ok |-> TRUE,  day |-> DayOf[s]]
    ELSE [ok |-> FALSE, day |-> 0]

strftime(d) == DateStr[d]

(* int(x) on a JSON field: <<>> is a missing field (None -> TypeError),     *)
(* <<n>> an integer n.                                                     *)
int(x) == IF x = <<>> THEN [ok |-> FALSE, v |-> 0] ELSE [ok |-> TRUE, v |-> x[1]]

----------------------------------------------------------------------------
(* Python dict keyed by the value's id, in insertion order: assignment to  *)
(* an existing key replaces the value in place, a new key is appended.     *)

(* the dict rebound to a fresh one holding only the new entry *)
DictSetOnly(d, v) == <<v>>

DictSet(d, v) ==
    IF \E i \in 1..Len(d) : d[i].id = v.id
    THEN [i \in 1..Len(d) |-> IF d[i].id = v.id THEN v ELSE d[i]]
    ELSE Append(d, v)

DictGet(d, k) ==
    IF \E i \in 1..Len(d) : d[i].id = k
    THEN d[CHOOSE i \in 1..Len(d) : d[i].id = k]
    ELSE None

get_user(user_id) == DictGet(users, user_id)

get_car(car_id) == DictGet(cars, car_id)

----------------------------------------------------------------------------
(* Constructors.  A Booking holds references to its user and car; both are *)
(* immutable in their id, which is all to_dict reads, so the id stands for *)
(* the reference.                                                          *)

User(id, name, email) == [id |-> id, name |-> name, email |-> email]

(* a new car starts with a booking that no ledger holds *)
CarPrebooked(id, name, car_type, price_per_day) ==
    [id |-> id, name |-> name, car_type |-> car_type, price_per_day |-> price_per_day,
     bookings |-> <<[id |-> 0, user |-> 0, car |-> id, start_date |-> 1, end_date |-> 1]>>]

Car(id, name, car_type, price_per_day) ==
    [id |-> id, name |-> name, car_type |-> car_type,
     price_per_day |-> price_per_day, bookings |-> <<>>]

(* the two references stored in each other's place *)
BookingSwapped(id, user, car, start_date, end_date) ==
    [id |-> id, user |-> car.id, car |-> user.id,
     start_date |-> start_date, end_date |-> end_date]

Booking(id, user, car, start_date, end_date) ==
    [id |-> id, user |-> user.id, car |-> car.id,
     start_date |-> start_date, end_date |-> end_date]

(* the increment lost: the counter keeps its value *)
IncrStuck(counter) == counter

(* X._id_counter += 1 *)
Incr(counter) == counter + 1

User_to_dict(u) == [id |-> u.id, name |-> u.name, email |-> u.email]

(* the booking list serialised along with the car *)
Car_to_dict_with_bookings(c) ==
    [id |-> c.id, name |-> c.name, type |-> c.car_type, price_per_day |-> c.price_per_day,
     bookings |-> c.bookings]

Car_to_dict(c) ==
    [id |-> c.id, name |-> c.name, type |-> c.car_type, price_per_day |-> c.price_per_day]

Booking_to_dict(b) ==
    [id |-> b.id, user_id |-> b.user, car_id |-> b.car,
     start_date |-> strftime(b.start_date), end_date |-> strftime(b.end_date)]

----------------------------------------------------------------------------
(* Car.is_available: scan the car's bookings in order, return False at the *)
(* first one the requested range overlaps, True when the scan ends.        *)

(* half-open comparison: ranges that share a day pass as disjoint *)
OverlapsHalfOpen(start_date, end_date, booking) ==
    (start_date < booking.end_date) /\ (booking.start_date < end_date)

Overlaps(start_date, end_date, booking) ==
    (start_date <= booking.end_date) /\ (booking.start_date <= end_date)

(* the return True moved into the loop: only the first booking is compared *)
is_available_first_only(bs, i, start_date, end_date) ==
    IF i > Len(bs) THEN TRUE
    ELSE IF Overlaps(start_date, end_date, bs[i]) THEN FALSE
    ELSE TRUE

RECURSIVE is_available_from(_, _, _, _)
is_available_from(bs, i, start_date, end_date) ==
    IF i > Len(bs) THEN TRUE
    ELSE IF Overlaps(start_date, end_date, bs[i]) THEN FALSE
    ELSE is_available_from(bs, i + 1, start_date, end_date)

(* only the most recent booking is compared *)
is_available_last_only(car, start_date, end_date) ==
    \/ car.bookings = <<>>
    \/ ~ Overlaps(start_date, end_date, car.bookings[Len(car.bookings)])

is_available(car, start_date, end_date) ==
    is_available_from(car.bookings, 1, start_date, end_date)

----------------------------------------------------------------------------
(* Results of the core methods: a returned value or a raised exception.    *)

Returned(v) == [exc |-> "", msg |-> "", value |-> v]

Raised(cls, m) == [exc |-> cls, msg |-> m, value |-> None]

UserMissingMsg(user_id) == "User with id " \o ToString(user_id) \o " does not exist."

CarMissingMsg(car_id) == "Car with id " \o ToString(car_id) \o " does not exist."

UnavailableMsg == "Car is not available for the requested period."

InvalidRangeMsg == "End date must be after start date"

InvalidDataMsg == "Invalid booking data"

MissingFieldMsg == "Missing name or email"

(* jsonify(body), status *)
Response(status, body) == [status |-> status, json |-> body]

ErrorResponse(m) == Response(400, [error |-> m])

NoCall == "none"

NoThreads == <<>>

----------------------------------------------------------------------------
(* State after the module is loaded: an empty service, then three seeded   *)
(* cars.                                                                   *)

SeedCars ==
    << Car(1, "Peugeot 208", "Economy", 45),
       Car(2, "BMW X5", "SUV", 120),
       Car(3, "Tesla Model 3", "Electric", 150) >>

InitStore ==
    /\ users = <<>>
    /\ cars = SeedCars
    /\ bookings = <<>>
    /\ User_id_counter = 1
    /\ Car_id_counter = Len(SeedCars) + 1
    /\ Booking_id_counter = 1
    /\ issued = [user |-> <<>>, car |-> <<1, 2, 3>>, booking |-> <<>>]

Init ==
    /\ InitStore
    /\ call = NoCall
    /\ ret = Returned(None)
    /\ resp = Response(0, None)
    /\ thr = NoThreads

----------------------------------------------------------------------------
(* RentalService methods, each one whole call.                             *)

add_user(name, email) ==
    LET user == User(User_id_counter, name, email) IN
    /\ User_id_counter' = Incr(User_id_counter)
    /\ issued' = [issued EXCEPT !.user = Append(@, user.id)]
    /\ users' = DictSet(users, user)
    /\ ret' = Returned(user)
    /\ UNCHANGED <<cars, bookings, Car_id_counter, Booking_id_counter>>

add_car(name, car_type, price_per_day) ==
    LET car == Car(Car_id_counter, name, car_type, price_per_day) IN
    /\ Car_id_counter' = Incr(Car_id_counter)
    /\ issued' = [issued EXCEPT !.car = Append(@, car.id)]
    /\ cars' = DictSet(cars, car)
    /\ ret' = Returned(car)
    /\ UNCHANGED <<users, bookings, User_id_counter, Booking_id_counter>>

(* the listing empties the dict it walks *)
list_cars_draining ==
    /\ ret' = Returned([i \in 1..Len(cars) |-> Car_to_dict(cars[i])])
    /\ cars' = <<>>
    /\ UNCHANGED <<users, bookings, User_id_counter, Car_id_counter,
                   Booking_id_counter, issued>>

list_cars ==
    /\ ret' = Returned([i \in 1..Len(cars) |-> Car_to_dict(cars[i])])
    /\ UNCHANGED <<store, issued>>

(* the ledger listed newest first *)
list_bookings_reversed ==
    /\ ret' = Returned([i \in 1..Len(bookings)
                            |-> Booking_to_dict(bookings[Len(bookings) + 1 - i])])
    /\ UNCHANGED <<store, issued>>

list_bookings ==
    /\ ret' = Returned([i \in 1..Len(bookings) |-> Booking_to_dict(bookings[i])])
    /\ UNCHANGED <<store, issued>>

(* a car that holds any booking is refused, whatever the dates *)
book_car_checks_strict(user_id, car_id, start_date, end_date) ==
    LET user == get_user(user_id)
        car  == get_car(car_id)
    IN
    IF user = None THEN Raised("ValueError", UserMissingMsg(user_id))
    ELSE IF car = None THEN Raised("ValueError", CarMissingMsg(car_id))
    ELSE IF car.bookings # <<>> THEN Raised("ValueError", UnavailableMsg)
    ELSE Returned(None)

(* book_car, lines 142-150: the lookups and the availability check, which *)
(* raise before anything is written.  Returned(None) is "nothing raised".  *)
book_car_checks(user_id, car_id, start_date, end_date) ==
    LET user == get_user(user_id)
        car  == get_car(car_id)
    IN
    IF user = None THEN Raised("ValueError", UserMissingMsg(user_id))
    ELSE IF car = None THEN Raised("ValueError", CarMissingMsg(car_id))
    ELSE IF ~ is_available(car, start_date, end_date)
         THEN Raised("ValueError", UnavailableMsg)
    ELSE Returned(None)

(* the Booking constructed before the checks: a failed call takes an id *)
book_car_eager(user_id, car_id, start_date, end_date) ==
    LET checks == book_car_checks(user_id, car_id, start_date, end_date) IN
    IF checks.exc # "" THEN
        /\ ret' = checks
        /\ Booking_id_counter' = Incr(Booking_id_counter)
        /\ UNCHANGED <<users, cars, bookings, User_id_counter, Car_id_counter, issued>>
    ELSE
        LET user    == get_user(user_id)
            car     == get_car(car_id)
            booking == Booking(Booking_id_counter, user, car, start_date, end_date)
        IN
        /\ Booking_id_counter' = Incr(Booking_id_counter)
        /\ issued' = [issued EXCEPT !.booking = Append(@, booking.id)]
        /\ cars' = DictSet(cars, [car EXCEPT !.bookings = Append(@, booking)])
        /\ bookings' = DictSet(bookings, booking)
        /\ ret' = Returned(booking)
        /\ UNCHANGED <<users, User_id_counter, Car_id_counter>>

book_car(user_id, car_id, start_date, end_date) ==
    LET checks == book_car_checks(user_id, car_id, start_date, end_date) IN
    IF checks.exc # "" THEN
        /\ ret' = checks
        /\ UNCHANGED <<store, issued>>
    ELSE
        LET user    == get_user(user_id)
            car     == get_car(car_id)
            booking == Booking(Booking_id_counter, user, car, start_date, end_date)
        IN
        /\ Booking_id_counter' = Incr(Booking_id_counter)
        /\ issued' = [issued EXCEPT !.booking = Append(@, booking.id)]
        /\ cars' = DictSet(cars, [car EXCEPT !.bookings = Append(@, booking)])
        /\ bookings' = DictSet(bookings, booking)
        /\ ret' = Returned(booking)
        /\ UNCHANGED <<users, User_id_counter, Car_id_counter>>

----------------------------------------------------------------------------
(* Arguments offered to the operations.                                    *)

Names == {"Alice", ""}

Emails == {"alice@example.com", ""}

(* user 1 (registered first), and an id that is never registered *)
UserIdArgs == {1, MaxUsers + 1}

(* Requests name two seeded cars and the first id after the seed, which no *)
(* car of the server has.  Direct calls name one seeded car and that id,   *)
(* which add_car assigns.                                                  *)
CarIdArgs == {1, 2, Len(SeedCars) + 1}

CoreCarIdArgs == {1, Len(SeedCars) + 1}

(* Creation is offered until the kind's counter has passed its bound.      *)
WithinBounds ==
    /\ User_id_counter' <= MaxUsers + 1
    /\ Booking_id_counter' <= MaxBookings + 1
    /\ Car_id_counter' <= Len(SeedCars) + MaxAddedCars + 1

----------------------------------------------------------------------------
(* SpecCore: the methods of RentalService called directly.                 *)

CallAddUser ==
    /\ add_user("Alice", "alice@example.com")
    /\ call' = "add_user"
    /\ WithinBounds
    /\ UNCHANGED <<resp, thr>>

CallAddCar ==
    /\ add_car("Fiat 500", "Economy", 40)
    /\ call' = "add_car"
    /\ WithinBounds
    /\ UNCHANGED <<resp, thr>>

(* The argument tuples of the direct book_car calls.  The id that is never *)
(* registered is tried with one car and one range: book_car raises at line *)
(* 144 before it reads either.                                             *)
CoreBookArgs ==
    {a \in UserIdArgs \X CoreCarIdArgs \X Days \X Days :
        a[1] = MaxUsers + 1 => (a[2] = 1 /\ a[3] = 1 /\ a[4] = 1)}

CallBookCar ==
    \E a \in CoreBookArgs :
        /\ book_car(a[1], a[2], a[3], a[4])
        /\ call' = "book_car"
        /\ WithinBounds
        /\ UNCHANGED <<resp, thr>>

CallListCars ==
    /\ list_cars
    /\ call' = "list_cars"
    /\ UNCHANGED <<resp, thr>>

CallListBookings ==
    /\ list_bookings
    /\ call' = "list_bookings"
    /\ UNCHANGED <<resp, thr>>

NextCore ==
    \/ CallAddUser
    \/ CallAddCar
    \/ CallBookCar
    \/ CallListCars
    \/ CallListBookings

SpecCore == Init /\ [][NextCore]_vars

----------------------------------------------------------------------------
(* Spec: the Flask endpoints, one request handled at a time.               *)

(* GET /cars *)
list_cars_endpoint ==
    /\ list_cars
    /\ call' = "GET /cars"
    /\ resp' = Response(200, ret'.value)
    /\ UNCHANGED thr

(* register_user, lines 181-185: the missing-field exit *)
register_user_checks(name, email) ==
    IF name = "" \/ email = "" THEN ErrorResponse(MissingFieldMsg) ELSE Response(0, None)

(* POST /users *)
register_user ==
    \E name \in Names, email \in Emails :
        LET early == register_user_checks(name, email) IN
        /\ call' = "POST /users"
        /\ IF early.status # 0 THEN
               /\ resp' = early
               /\ UNCHANGED <<store, issued, ret>>
           ELSE
               /\ add_user(name, email)
               /\ resp' = Response(201, User_to_dict(ret'.value))
        /\ WithinBounds
        /\ UNCHANGED thr

(* The try block of book_car_endpoint: the four conversions.               *)
ParseBooking(data) ==
    LET user_id    == int(data.user_id)
        car_id     == int(data.car_id)
        start_date == strptime(data.start_date)
        end_date   == strptime(data.end_date)
    IN [ok |-> user_id.ok /\ car_id.ok /\ start_date.ok /\ end_date.ok,
        user_id |-> user_id.v, car_id |-> car_id.v,
        start_date |-> start_date.day, end_date |-> end_date.day]

(* the range check dropped *)
RangeInvalidNever(start_date, end_date) == FALSE

(* if end_date < start_date *)
RangeInvalid(start_date, end_date) == end_date < start_date

(* book_car_endpoint, lines 208-211: the exits taken before book_car is    *)
(* called, given the outcome `a` of the try block.  Response(0, None) is   *)
(* "no early exit".                                                        *)
book_car_endpoint_checks(a) ==
    IF ~ a.ok THEN ErrorResponse(InvalidDataMsg)
    ELSE IF RangeInvalid(a.start_date, a.end_date) THEN ErrorResponse(InvalidRangeMsg)
    ELSE Response(0, None)

(* lines 212-216: the response to what book_car returned or raised *)
book_car_endpoint_response(r) ==
    IF r.exc = "ValueError" THEN ErrorResponse(r.msg)
    ELSE Response(201, Booking_to_dict(r.value))

(* The JSON bodies offered to POST /book: every well-formed combination,   *)
(* and one body per conversion that can fail.                              *)
WellFormedData ==
    [user_id : {<<n>> : n \in UserIdArgs}, car_id : {<<n>> : n \in CarIdArgs},
     start_date : {DateStr[d] : d \in Days}, end_date : {DateStr[d] : d \in Days}]

SampleData ==
    [user_id |-> <<1>>, car_id |-> <<1>>, start_date |-> DateStr[1], end_date |-> DateStr[1]]

MalformedData ==
    { [SampleData EXCEPT !.user_id = <<>>],
      [SampleData EXCEPT !.car_id = <<>>],
      [SampleData EXCEPT !.start_date = BadDate],
      [SampleData EXCEPT !.end_date = BadDate] }

BookingData == WellFormedData \cup MalformedData

(* POST /book *)
book_car_endpoint ==
    \E data \in BookingData :
        LET a     == ParseBooking(data)
            early == book_car_endpoint_checks(a)
        IN
        /\ call' = "POST /book"
        /\ IF early.status # 0 THEN
               /\ resp' = early
               /\ UNCHANGED <<store, issued, ret>>
           ELSE
               /\ book_car(a.user_id, a.car_id, a.start_date, a.end_date)
               /\ resp' = book_car_endpoint_response(ret')
        /\ WithinBounds
        /\ UNCHANGED thr

(* GET /bookings *)
list_bookings_endpoint ==
    /\ list_bookings
    /\ call' = "GET /bookings"
    /\ resp' = Response(200, ret'.value)
    /\ UNCHANGED thr

Next ==
    \/ list_cars_endpoint
    \/ register_user
    \/ book_car_endpoint
    \/ list_bookings_endpoint

Spec == Init /\ [][Next]_vars

----------------------------------------------------------------------------
(* SpecThreads: the development server handles each request on its own     *)
(* thread and the handlers take no lock, so a thread may be preempted      *)
(* between any two statements that touch the shared service.  Each action  *)
(* below is one such statement of one thread; the statements of a handler  *)
(* that touch only its locals are folded into the neighbouring action.     *)
(* `X._id_counter += 1` is a load and a store with a preemption point      *)
(* between them.                                                           *)

Threads == {"t1", "t2"}

Idle ==
    [pc |-> "idle", name |-> "", email |-> "", user_id |-> 0, car_id |-> 0,
     start_date |-> 0, end_date |-> 0, id |-> 0, tmp |-> 0,
     i |-> 0, n |-> 0, out |-> <<>>]

InitThreads ==
    /\ InitStore
    /\ call = NoCall
    /\ ret = Returned(None)
    /\ resp = Response(0, None)
    /\ thr = [t \in Threads |-> Idle]

(* the handler of thread t returns: its response is sent, its frame dropped *)
Respond(t, op, r) ==
    /\ call' = op
    /\ resp' = r
    /\ thr' = [thr EXCEPT ![t] = Idle]

Goto(t, frame) == thr' = [thr EXCEPT ![t] = frame]

(* Requests that create are accepted while the ids assigned so far plus    *)
(* the creating handlers still short of their constructor stay below the   *)
(* bound.                                                                  *)
InFlight(pcs) == Cardinality({t \in Threads : thr[t].pc \in pcs})

MayRegister == Len(issued.user) + InFlight({"User.id"}) < MaxUsers

MayBook ==
    Len(issued.booking) + InFlight({"lookup", "is_available", "Booking.id"}) < MaxBookings

(* ---- POST /users ---- *)

(* lines 181-186: parse, the missing-field exit, enter User.__init__ *)
T_register_user(t) ==
    /\ thr[t].pc = "idle"
    /\ MayRegister
    /\ \E name \in Names, email \in Emails :
         LET early == register_user_checks(name, email) IN
         IF early.status # 0
         THEN Respond(t, "POST /users", early)
         ELSE /\ Goto(t, [Idle EXCEPT !.pc = "User.id", !.name = name, !.email = email])
              /\ UNCHANGED <<call, resp>>
    /\ UNCHANGED <<store, issued, ret>>

(* line 51: self.id = User._id_counter *)
T_User_id(t) ==
    /\ thr[t].pc = "User.id"
    /\ Goto(t, [thr[t] EXCEPT !.pc = "User.load", !.id = User_id_counter])
    /\ issued' = [issued EXCEPT !.user = Append(@, User_id_counter)]
    /\ UNCHANGED <<store, call, ret, resp>>

(* line 52, the load of User._id_counter += 1 *)
T_User_load(t) ==
    /\ thr[t].pc = "User.load"
    /\ Goto(t, [thr[t] EXCEPT !.pc = "User.store", !.tmp = User_id_counter])
    /\ UNCHANGED <<store, issued, call, ret, resp>>

(* line 52, the store of User._id_counter += 1 *)
T_User_store(t) ==
    /\ thr[t].pc = "User.store"
    /\ User_id_counter' = Incr(thr[t].tmp)
    /\ Goto(t, [thr[t] EXCEPT !.pc = "users.insert"])
    /\ UNCHANGED <<users, cars, bookings, Car_id_counter, Booking_id_counter,
                   issued, call, ret, resp>>

(* line 124: self.users[user.id] = user; line 187: the response *)
T_users_insert(t) ==
    LET user == User(thr[t].id, thr[t].name, thr[t].email) IN
    /\ thr[t].pc = "users.insert"
    /\ users' = DictSet(users, user)
    /\ ret' = Returned(user)
    /\ Respond(t, "POST /users", Response(201, User_to_dict(user)))
    /\ UNCHANGED <<cars, bookings, User_id_counter, Car_id_counter,
                   Booking_id_counter, issued>>

(* ---- POST /book ---- *)

(* lines 202-211: parse, the early exits, enter book_car *)
T_book_car_endpoint(t) ==
    /\ thr[t].pc = "idle"
    /\ MayBook
    /\ \E data \in BookingData :
         LET a     == ParseBooking(data)
             early == book_car_endpoint_checks(a)
         IN
         IF early.status # 0
         THEN Respond(t, "POST /book", early)
         ELSE /\ Goto(t, [Idle EXCEPT !.pc = "lookup", !.user_id = a.user_id,
                          !.car_id = a.car_id, !.start_date = a.start_date,
                          !.end_date = a.end_date])
              /\ UNCHANGED <<call, resp>>
    /\ UNCHANGED <<store, issued, ret>>

(* lines 142-147: get_user and get_car, each raising when the id is unknown *)
T_book_car_lookup(t) ==
    LET f == thr[t] IN
    /\ f.pc = "lookup"
    /\ IF get_user(f.user_id) = None THEN
           /\ ret' = Raised("ValueError", UserMissingMsg(f.user_id))
           /\ Respond(t, "POST /book", book_car_endpoint_response(ret'))
       ELSE IF get_car(f.car_id) = None THEN
           /\ ret' = Raised("ValueError", CarMissingMsg(f.car_id))
           /\ Respond(t, "POST /book", book_car_endpoint_response(ret'))
       ELSE
           /\ Goto(t, [f EXCEPT !.pc = "is_available"])
           /\ UNCHANGED <<call, ret, resp>>
    /\ UNCHANGED <<store, issued>>

(* lines 149-150: car.is_available.  The scan only ever meets bookings     *)
(* appended before it ends, so it answers as one read of the list taken    *)
(* when it returns.                                                        *)
T_book_car_is_available(t) ==
    LET f == thr[t] IN
    /\ f.pc = "is_available"
    /\ IF ~ is_available(get_car(f.car_id), f.start_date, f.end_date) THEN
           /\ ret' = Raised("ValueError", UnavailableMsg)
           /\ Respond(t, "POST /book", book_car_endpoint_response(ret'))
       ELSE
           /\ Goto(t, [f EXCEPT !.pc = "Booking.id"])
           /\ UNCHANGED <<call, ret, resp>>
    /\ UNCHANGED <<store, issued>>

(* line 97: self.id = Booking._id_counter *)
T_Booking_id(t) ==
    /\ thr[t].pc = "Booking.id"
    /\ Goto(t, [thr[t] EXCEPT !.pc = "Booking.load", !.id = Booking_id_counter])
    /\ issued' = [issued EXCEPT !.booking = Append(@, Booking_id_counter)]
    /\ UNCHANGED <<store, call, ret, resp>>

(* line 98, the load of Booking._id_counter += 1 *)
T_Booking_load(t) ==
    /\ thr[t].pc = "Booking.load"
    /\ Goto(t, [thr[t] EXCEPT !.pc = "Booking.store", !.tmp = Booking_id_counter])
    /\ UNCHANGED <<store, issued, call, ret, resp>>

(* line 98, the store of Booking._id_counter += 1 *)
T_Booking_store(t) ==
    /\ thr[t].pc = "Booking.store"
    /\ Booking_id_counter' = Incr(thr[t].tmp)
    /\ Goto(t, [thr[t] EXCEPT !.pc = "car.bookings.append"])
    /\ UNCHANGED <<users, cars, bookings, User_id_counter, Car_id_counter,
                   issued, call, ret, resp>>

(* the booking under construction in thread t *)
NewBooking(f) ==
    Booking(f.id, get_user(f.user_id), get_car(f.car_id), f.start_date, f.end_date)

(* the append left out: the booking goes to the ledger only *)
T_car_bookings_append_skipped(t) ==
    /\ thr[t].pc = "car.bookings.append"
    /\ Goto(t, [thr[t] EXCEPT !.pc = "bookings.insert"])
    /\ UNCHANGED <<store, issued, call, ret, resp>>

(* line 152: car.bookings.append(booking) *)
T_car_bookings_append(t) ==
    LET f   == thr[t]
        car == get_car(f.car_id)
    IN
    /\ f.pc = "car.bookings.append"
    /\ cars' = DictSet(cars, [car EXCEPT !.bookings = Append(@, NewBooking(f))])
    /\ Goto(t, [f EXCEPT !.pc = "bookings.insert"])
    /\ UNCHANGED <<users, bookings, User_id_counter, Car_id_counter,
                   Booking_id_counter, issued, call, ret, resp>>

(* line 153: self.bookings[booking.id] = booking; line 216: the response *)
T_bookings_insert(t) ==
    LET booking == NewBooking(thr[t]) IN
    /\ thr[t].pc = "bookings.insert"
    /\ bookings' = DictSet(bookings, booking)
    /\ ret' = Returned(booking)
    /\ Respond(t, "POST /book", book_car_endpoint_response(ret'))
    /\ UNCHANGED <<users, cars, User_id_counter, Car_id_counter,
                   Booking_id_counter, issued>>

(* ---- GET /cars ---- *)

(* lines 171, 133: nothing the server runs writes the cars dict or the     *)
(* fields to_dict reads, so the listing is one read.                       *)
T_list_cars(t) ==
    /\ thr[t].pc = "idle"
    /\ ret' = Returned([i \in 1..Len(cars) |-> Car_to_dict(cars[i])])
    /\ Respond(t, "GET /cars", Response(200, ret'.value))
    /\ UNCHANGED <<store, issued>>

(* ---- GET /bookings ---- *)

(* line 157: iter(self.bookings.values()) notes the size of the dict *)
T_list_bookings_endpoint(t) ==
    /\ thr[t].pc = "idle"
    /\ Goto(t, [Idle EXCEPT !.pc = "bookings.next", !.i = 1, !.n = Len(bookings)])
    /\ UNCHANGED <<store, issued, call, ret, resp>>

DictChangedSizeMsg == "RuntimeError: dictionary changed size during iteration"

(* line 157: one next() of the iterator and the to_dict of what it yields. *)
(* next() raises RuntimeError when the dict has changed size since the     *)
(* iterator was made; the handler does not catch it and Flask answers 500. *)
T_list_bookings_next(t) ==
    LET f == thr[t] IN
    /\ f.pc = "bookings.next"
    /\ IF Len(bookings) # f.n THEN
           /\ ret' = Raised("RuntimeError", DictChangedSizeMsg)
           /\ Respond(t, "GET /bookings", Response(500, [error |-> DictChangedSizeMsg]))
       ELSE IF f.i > f.n THEN
           /\ ret' = Returned(f.out)
           /\ Respond(t, "GET /bookings", Response(200, f.out))
       ELSE
           /\ Goto(t, [f EXCEPT !.i = f.i + 1,
                                !.out = Append(f.out, Booking_to_dict(bookings[f.i]))])
           /\ UNCHANGED <<call, ret, resp>>
    /\ UNCHANGED <<store, issued>>

NextThreads ==
    \E t \in Threads :
        \/ T_register_user(t)
        \/ T_User_id(t)
        \/ T_User_load(t)
        \/ T_User_store(t)
        \/ T_users_insert(t)
        \/ T_book_car_endpoint(t)
        \/ T_book_car_lookup(t)
        \/ T_book_car_is_available(t)
        \/ T_Booking_id(t)
        \/ T_Booking_load(t)
        \/ T_Booking_store(t)
        \/ T_car_bookings_append(t)
        \/ T_bookings_insert(t)
        \/ T_list_cars(t)
        \/ T_list_bookings_endpoint(t)
        \/ T_list_bookings_next(t)

SpecThreads == InitThreads /\ [][NextThreads]_vars

----------------------------------------------------------------------------
(* What POST /book answers in the current state to a request whose body    *)
(* parsed to `a`: the early exit, the error raised by book_car, or 201     *)
(* with the booking it would create.                                       *)

BookRequestOutcome(a) ==
    LET early == book_car_endpoint_checks(a) IN
    IF early.status # 0 THEN early
    ELSE LET r == book_car_checks(a.user_id, a.car_id, a.start_date, a.end_date) IN
         IF r.exc # "" THEN book_car_endpoint_response(r)
         ELSE book_car_endpoint_response(Returned(
                  Booking(Booking_id_counter, get_user(a.user_id), get_car(a.car_id),
                          a.start_date, a.end_date)))

(* the requests whose four fields convert *)
ParsedRequests == {a \in {ParseBooking(data) : data \in BookingData} : a.ok}

(* Every answer of POST /book is the outcome above for some offered body.  *)
EndpointAnswersOutcome ==
    [][ call' = "POST /book" =>
        \E data \in BookingData : resp' = BookRequestOutcome(ParseBooking(data)) ]_vars

IsError(r, m) == r.status = 400 /\ r.json.error = m

(* The failure kinds of the specification, as the messages of the code.    *)
UserMissingMsgs == {UserMissingMsg(u) : u \in UserIdArgs}

CarMissingMsgs == {CarMissingMsg(c) : c \in CarIdArgs}

FailureKind(m) ==
    IF m \in UserMissingMsgs THEN "NotFound(user)"
    ELSE IF m \in CarMissingMsgs THEN "NotFound(item)"
    ELSE IF m = InvalidRangeMsg THEN "InvalidRange"
    ELSE IF m = UnavailableMsg THEN "Unavailable"
    ELSE "other"

BookingKinds == {"NotFound(user)", "NotFound(item)", "InvalidRange", "Unavailable"}

(* closed-interval overlap of two recorded bookings *)
ClosedOverlap(b1, b2) ==
    b1.start_date <= b2.end_date /\ b2.start_date <= b1.end_date

AllCarBookings == UNION {{c.bookings[i] : i \in 1..Len(c.bookings)} : c \in {cars[k] : k \in 1..Len(cars)}}

----------------------------------------------------------------------------
(* C1: after any sequence of add_user, add_car and book_car calls, no two  *)
(* distinct bookings recorded for one car overlap as closed intervals,     *)
(* neither in the car's booking list nor in the ledger.                    *)
C1_NoOverlap ==
    /\ \A k \in 1..Len(cars) :
         \A i, j \in 1..Len(cars[k].bookings) :
            i # j => ~ ClosedOverlap(cars[k].bookings[i], cars[k].bookings[j])
    /\ \A i, j \in 1..Len(bookings) :
         (i # j /\ bookings[i].car = bookings[j].car)
            => ~ ClosedOverlap(bookings[i], bookings[j])

(* a car holds two bookings and a further book_car on it has just failed *)
C1_Witness ==
    /\ \E k \in 1..Len(cars) : Len(cars[k].bookings) >= 2
    /\ call = "book_car"
    /\ ret.exc = "ValueError" /\ ret.msg = UnavailableMsg

----------------------------------------------------------------------------
(* the positions of book_car after the availability check has passed *)
PastCheck == {"Booking.id", "Booking.load", "Booking.store",
              "car.bookings.append", "bookings.insert"}

(* C2: with requests on concurrent threads, check, id allocation and       *)
(* recording are one atomic unit: two requests for one car with            *)
(* overlapping ranges are never both past the availability check, and no   *)
(* car's list ever holds two overlapping bookings.                         *)
C2_BookingAtomic ==
    /\ \A t1, t2 \in Threads :
         (/\ t1 # t2
          /\ thr[t1].pc \in PastCheck /\ thr[t2].pc \in PastCheck
          /\ thr[t1].car_id = thr[t2].car_id)
            => ~ ClosedOverlap(thr[t1], thr[t2])
    /\ \A k \in 1..Len(cars) :
         \A i, j \in 1..Len(cars[k].bookings) :
            i < j => ~ ClosedOverlap(cars[k].bookings[i], cars[k].bookings[j])

----------------------------------------------------------------------------
StrictlyIncreasing(seq) == \A i, j \in 1..Len(seq) : i < j => seq[i] < seq[j]

Ids(d) == [i \in 1..Len(d) |-> d[i].id]

(* C3: per kind, the ids assigned are strictly increasing in creation      *)
(* order, each stored entity carries the id it was assigned (none is       *)
(* replaced under a repeated id), and the counter stays above every id     *)
(* assigned so far.                                                        *)
C3_IdsStrictlyIncreasing ==
    /\ StrictlyIncreasing(issued.user)
    /\ StrictlyIncreasing(issued.car)
    /\ StrictlyIncreasing(issued.booking)
    /\ Ids(users) = issued.user
    /\ Ids(cars) = issued.car
    /\ Ids(bookings) = issued.booking
    /\ \A i \in 1..Len(issued.user) : issued.user[i] < User_id_counter
    /\ \A i \in 1..Len(issued.car) : issued.car[i] < Car_id_counter
    /\ \A i \in 1..Len(issued.booking) : issued.booking[i] < Booking_id_counter

(* two users, two bookings and a car beyond the seed have been created *)
C3_Witness ==
    /\ Len(users) >= 2
    /\ Len(bookings) >= 2
    /\ Len(cars) > Len(SeedCars)

----------------------------------------------------------------------------
NoRepeat(seq) == \A i, j \in 1..Len(seq) : i # j => seq[i] # seq[j]

Quiescent == \A t \in Threads : thr[t].pc = "idle"

(* C4: with creation calls on concurrent threads, reading the counter,     *)
(* incrementing it and inserting under the id are not split: no two users  *)
(* and no two bookings are assigned the same id, and once the handlers     *)
(* have returned every created user and booking is in its map.             *)
C4_CreateAtomic ==
    /\ NoRepeat(issued.user)
    /\ NoRepeat(issued.booking)
    /\ Quiescent => /\ Len(users) = Len(issued.user)
                    /\ Len(bookings) = Len(issued.booking)

----------------------------------------------------------------------------
(* C5: a booking request whose user id resolves to no registered user is   *)
(* answered with the user-not-found error, whatever the car id and dates.  *)
C5_UnknownUserNotFound ==
    \A a \in ParsedRequests :
        get_user(a.user_id) = None
            => IsError(BookRequestOutcome(a), UserMissingMsg(a.user_id))

----------------------------------------------------------------------------
(* C6: a booking request with end date before start date, for a registered *)
(* user and an existing car, is answered with the invalid-range error, and *)
(* every booking in the ledger and in the cars' lists has start <= end.    *)
C6_InvalidRangeRejected ==
    /\ \A a \in ParsedRequests :
         (/\ get_user(a.user_id) # None
          /\ get_car(a.car_id) # None
          /\ a.end_date < a.start_date)
            => IsError(BookRequestOutcome(a), InvalidRangeMsg)
    /\ \A i \in 1..Len(bookings) : bookings[i].start_date <= bookings[i].end_date
    /\ \A b \in AllCarBookings : b.start_date <= b.end_date

(* with a user registered and a booking recorded, a request has just been  *)
(* answered with the invalid-range error                                   *)
C6_Witness ==
    /\ call = "POST /book"
    /\ IsError(resp, InvalidRangeMsg)
    /\ Len(users) >= 1
    /\ Len(bookings) >= 1

----------------------------------------------------------------------------
(* C7: is_available answers true exactly when no booking [s, e] of the car *)
(* has newStart <= e and s <= newEnd; a request by a registered user that  *)
(* starts on the end date of a booking of the car is answered Unavailable, *)
(* and one that starts the day after the car's only booking succeeds.      *)
C7_AvailabilityExact ==
    /\ \A k \in 1..Len(cars), s \in Days, e \in Days :
         is_available(cars[k], s, e)
            <=> ~ \E i \in 1..Len(cars[k].bookings) :
                     s <= cars[k].bookings[i].end_date
                     /\ cars[k].bookings[i].start_date <= e
    /\ \A a \in ParsedRequests :
         LET car == get_car(a.car_id)
         IN (get_user(a.user_id) # None /\ car # None /\ a.start_date <= a.end_date)
            => /\ (\E i \in 1..Len(car.bookings) : car.bookings[i].end_date = a.start_date)
                    => IsError(BookRequestOutcome(a), UnavailableMsg)
               /\ (Len(car.bookings) = 1 /\ car.bookings[1].end_date + 1 = a.start_date)
                    => BookRequestOutcome(a).status = 201

(* a car holds the bookings of two touching days, and a request on it has  *)
(* just been answered Unavailable                                          *)
C7_Witness ==
    /\ call = "POST /book"
    /\ IsError(resp, UnavailableMsg)
    /\ \E k \in 1..Len(cars) :
         \E i, j \in 1..Len(cars[k].bookings) :
            cars[k].bookings[j].start_date = cars[k].bookings[i].end_date + 1

----------------------------------------------------------------------------
(* the part of an error response besides its message string *)
ResponseKind(r) == r.status

(* C8: two booking requests that fail for different reasons get error      *)
(* responses that differ in kind, not only in the message string.          *)
C8_KindsDistinguishable ==
    [][ (/\ call = "POST /book" /\ call' = "POST /book"
         /\ resp.status = 400 /\ resp'.status = 400
         /\ FailureKind(resp.json.error) \in BookingKinds
         /\ FailureKind(resp'.json.error) \in BookingKinds
         /\ FailureKind(resp.json.error) # FailureKind(resp'.json.error))
        => ResponseKind(resp) # ResponseKind(resp') ]_vars

----------------------------------------------------------------------------
(* the request is answered 400: an early exit is taken or book_car raises *)
BookRequestFails(a) ==
    \/ book_car_endpoint_checks(a).status = 400
    \/ book_car_checks(a.user_id, a.car_id, a.start_date, a.end_date).exc = "ValueError"

(* C9 as stated: a booking request that fails in some state fails in every *)
(* later state.                                                            *)
C9_FailedStaysFailed ==
    [][ \A a \in ParsedRequests : BookRequestFails(a) => BookRequestFails(a)' ]_vars

(* C9 amended: a request that fails keeps failing, except that one         *)
(* rejected for its user id or car id is judged anew once a user or car    *)
(* with that id has been created.  (The answer is a function of the store, *)
(* so only the steps that write to the store are examined.)                *)
C9_RetryFails ==
    [][ store' # store =>
        \A a \in ParsedRequests :
            (/\ BookRequestFails(a)
             /\ FailureKind(BookRequestOutcome(a).json.error) = "NotFound(user)"
                   => get_user(a.user_id)' = None
             /\ FailureKind(BookRequestOutcome(a).json.error) = "NotFound(item)"
                   => get_car(a.car_id)' = None)
            => BookRequestFails(a)' ]_vars

(* a request has been answered Unavailable after two bookings by a         *)
(* registered user were recorded                                           *)
C9_Witness ==
    /\ call = "POST /book"
    /\ IsError(resp, UnavailableMsg)
    /\ Len(users) >= 1
    /\ Len(bookings) >= 2

----------------------------------------------------------------------------
Linked(b) ==
    \E k \in 1..Len(cars) :
        /\ cars[k].id = b.car
        /\ \E i \in 1..Len(cars[k].bookings) : cars[k].bookings[i] = b

Listed(entry) == \E b \in AllCarBookings : Booking_to_dict(b) = entry

(* C10: a read running beside book_car never sees a half-linked booking:   *)
(* whatever is in the ledger, and so can be read, is already in the        *)
(* booking list of its car, and so is every booking that a list_bookings   *)
(* in progress has collected or that the last GET /bookings has returned.  *)
C10_NoPartialBookingVisible ==
    /\ \A i \in 1..Len(bookings) : Linked(bookings[i])
    /\ \A t \in Threads :
         \A i \in 1..Len(thr[t].out) : Listed(thr[t].out[i])
    /\ (call = "GET /bookings" /\ resp.status = 200)
         => \A i \in 1..Len(resp.json) : Listed(resp.json[i])

(* one thread is inside list_bookings and has collected a booking while    *)
(* another has appended a booking to its car and not yet to the ledger     *)
C10_Witness ==
    \E t1, t2 \in Threads :
        /\ thr[t1].pc = "bookings.next"
        /\ Len(thr[t1].out) >= 1
        /\ thr[t2].pc = "bookings.insert"

----------------------------------------------------------------------------
(* C11: whatever the interleaving of requests, a call of a core operation  *)
(* either returns or raises one of the four booking failures: user not     *)
(* found, car not found, invalid range, unavailable.  No other exception   *)
(* leaves the core.                                                        *)
C11_OnlyBookingFailures ==
    ret.exc # "" => (ret.exc = "ValueError" /\ FailureKind(ret.msg) \in BookingKinds)

----------------------------------------------------------------------------
(* what list_cars returns in the current state *)
CarListing == [i \in 1..Len(cars) |-> Car_to_dict(cars[i])]

(* C12: list_cars returns the cars in the order they were added: add_car   *)
(* extends the listing at the end by the car it returns, so that its ids   *)
(* are the ids assigned, in order, and add_user and book_car, successful   *)
(* or failed, leave it as it was (cars, order, id, name, type and price).  *)
C12_CarListingStable ==
    [][ /\ call' = "list_cars" => ret'.value = CarListing
        /\ call' = "add_car"
              => /\ CarListing' = Append(CarListing, Car_to_dict(ret'.value))
                 /\ [i \in 1..Len(CarListing') |-> CarListing'[i].id] = issued.car'
        /\ call' \in {"add_user", "book_car"} => CarListing' = CarListing ]_vars

(* list_cars has just returned four cars, one of them added after the      *)
(* seed, and two of them carrying a booking                                *)
C12_Witness ==
    /\ call = "list_cars"
    /\ Len(ret.value) > Len(SeedCars)
    /\ Len(users) >= 1
    /\ Cardinality({k \in 1..Len(cars) : cars[k].bookings # <<>>}) >= 2

----------------------------------------------------------------------------
(* what list_bookings returns in the current state *)
BookingListing == [i \in 1..Len(bookings) |-> Booking_to_dict(bookings[i])]

(* C13: list_bookings returns the whole ledger in insertion order: a       *)
(* successful book_car extends the listing at the end by the booking it    *)
(* returns, a failed one leaves it alone, no entry repeats, and the ids    *)
(* listed are the ids assigned, ascending.                                 *)
C13_LedgerInInsertionOrder ==
    [][ /\ call' = "list_bookings" => ret'.value = BookingListing
        /\ (call' = "book_car" /\ ret'.exc = "")
              => BookingListing' = Append(BookingListing, Booking_to_dict(ret'.value))
        /\ (call' = "book_car" /\ ret'.exc # "") => BookingListing' = BookingListing
        /\ bookings' # bookings
              => /\ [i \in 1..Len(BookingListing') |-> BookingListing'[i].id]
                       = issued.booking'
                 /\ StrictlyIncreasing(issued.booking')
                 /\ NoRepeat(BookingListing') ]_vars

(* list_bookings has just returned two bookings *)
C13_Witness ==
    /\ call = "list_bookings"
    /\ Len(ret.value) >= 2

----------------------------------------------------------------------------
IsPrefix(s1, s2) == Len(s1) <= Len(s2) /\ \A i \in 1..Len(s1) : s2[i] = s1[i]

(* C14: nothing is edited or removed.  In every step that writes to the    *)
(* store each booking of the ledger is still there under its id with the   *)
(* same user, car and dates, each user is still there unchanged, and each  *)
(* car is still there with the same id, name, type and price and a booking *)
(* list that has only been extended.                                       *)
C14_NothingEditedOrRemoved ==
    [][ store' # store =>
        /\ \A i \in 1..Len(bookings) : DictGet(bookings', bookings[i].id) = bookings[i]
        /\ \A i \in 1..Len(users) : DictGet(users', users[i].id) = users[i]
        /\ \A i \in 1..Len(cars) :
              LET after == DictGet(cars', cars[i].id) IN
              /\ after # None
              /\ Car_to_dict(after) = Car_to_dict(cars[i])
              /\ IsPrefix(cars[i].bookings, after.bookings) ]_vars

(* with two users, two bookings and an added car in the store, a further   *)
(* book_car has failed                                                     *)
C14_Witness ==
    /\ Len(users) >= 2
    /\ Len(bookings) >= 2
    /\ Len(cars) > Len(SeedCars)
    /\ call = "book_car" /\ ret.exc = "ValueError"

----------------------------------------------------------------------------
(* C15: every booking of the ledger references a user that is in users     *)
(* and a car that is in cars, and a booking that enters the ledger         *)
(* references a user and a car that were there before the call.            *)
C15_ReferencesExist ==
    /\ [](\A i \in 1..Len(bookings) :
             /\ get_user(bookings[i].user) # None
             /\ get_car(bookings[i].car) # None)
    /\ [][ bookings' # bookings =>
            \A i \in 1..Len(bookings') :
               (\A j \in 1..Len(bookings) : bookings[j] # bookings'[i])
                  => /\ get_user(bookings'[i].user) # None
                     /\ get_car(bookings'[i].car) # None ]_vars

(* the ledger holds a booking of a car added after the seed, and two users *)
(* are registered                                                          *)
C15_Witness ==
    /\ \E i \in 1..Len(bookings) : bookings[i].car > Len(SeedCars)
    /\ Len(users) >= 2

----------------------------------------------------------------------------
(* C16: list_cars and list_bookings write nothing: a step of either leaves *)
(* users, cars, bookings and the three counters as they were, and a second *)
(* call right after the first returns the same sequence.                   *)
C16_ListsReadOnly ==
    [][ /\ call' \in {"list_cars", "list_bookings"} => (store' = store /\ issued' = issued)
        /\ (call = "list_cars" /\ call' = "list_cars") => ret'.value = ret.value
        /\ (call = "list_bookings" /\ call' = "list_bookings") => ret'.value = ret.value ]_vars

(* list_bookings has just returned one booking with two users registered   *)
C16_Witness ==
    /\ call = "list_bookings"
    /\ Len(ret.value) = 1
    /\ Len(users) >= 2

----------------------------------------------------------------------------
(* one direct call of book_car with the given arguments *)
BookCarCall(user_id, car_id, start_date, end_date) ==
    /\ book_car(user_id, car_id, start_date, end_date)
    /\ call' = "book_car"
    /\ UNCHANGED <<resp, thr>>

(* the user and the car exist, start <= end, and no booking of the car     *)
(* overlaps the requested range                                            *)
BookCarPrecondition(user_id, car_id, start_date, end_date) ==
    /\ get_user(user_id) # None
    /\ get_car(car_id) # None
    /\ start_date <= end_date
    /\ \A i \in 1..Len(get_car(car_id).bookings) :
          ~ (start_date <= get_car(car_id).bookings[i].end_date
             /\ get_car(car_id).bookings[i].start_date <= end_date)

(* the call returned a booking with the requested user, car and dates and  *)
(* the next unused id, now last in the car's list and in the ledger        *)
BookCarSucceeded(user_id, car_id, start_date, end_date) ==
    /\ ret'.exc = ""
    /\ ret'.value.user = user_id
    /\ ret'.value.car = car_id
    /\ ret'.value.start_date = start_date
    /\ ret'.value.end_date = end_date
    /\ ret'.value.id = Booking_id_counter
    /\ \A i \in 1..Len(issued.booking) : issued.booking[i] # ret'.value.id
    /\ DictGet(cars', car_id).bookings = Append(get_car(car_id).bookings, ret'.value)
    /\ DictGet(bookings', ret'.value.id) = ret'.value
    /\ bookings' = Append(bookings, ret'.value)

(* a call that meets the precondition and does not end as described *)
BookCarFallsShort ==
    \E a \in CoreBookArgs :
        /\ BookCarPrecondition(a[1], a[2], a[3], a[4])
        /\ BookCarCall(a[1], a[2], a[3], a[4])
        /\ ~ BookCarSucceeded(a[1], a[2], a[3], a[4])

(* C17: in every reachable state, a book_car call whose user and car       *)
(* exist, whose start is not after its end and whose range overlaps no     *)
(* booking of the car can only succeed: it returns a booking carrying the  *)
(* requested user, car, start and end under the next unused id, and leaves *)
(* that booking at the end of the car's list and in the ledger.  (book_car *)
(* always ends, by returning or by raising, so no step that falls short    *)
(* means every such call succeeds.  What a call does is a function of the  *)
(* store, and every store is first reached by the initial state or by a    *)
(* call that returned after writing, so the states left by a listing or by *)
(* a raise need no second look.)                                           *)
C17_BookCarSucceeds ==
    (ret.exc = "" /\ call \notin {"list_cars", "list_bookings"})
        => ~ ENABLED BookCarFallsShort

(* book_car has just returned the second booking of a car that already     *)
(* held one                                                                *)
C17_Witness ==
    /\ call = "book_car"
    /\ ret.exc = ""
    /\ ret.value.id = 2
    /\ Len(get_car(ret.value.car).bookings) = 2
    /\ ret.value.start_date <= ret.value.end_date

----------------------------------------------------------------------------
(* C18: a booking request answered with an error leaves users, cars, every *)
(* car's booking list, the ledger and the counters as they were, and with  *)
(* requests handled one at a time the ids in the ledger are 1..n, the      *)
(* counter standing at n + 1.                                              *)
C18_FailureChangesNothing ==
    /\ [][ (call' = "POST /book" /\ resp'.status = 400)
              => (store' = store /\ issued' = issued) ]_vars
    /\ [](/\ Ids(bookings) = [i \in 1..Len(bookings) |-> i]
          /\ Booking_id_counter = Len(bookings) + 1)

(* after two bookings were recorded a request has been refused for its     *)
(* unknown user                                                            *)
C18_Witness ==
    /\ call = "POST /book"
    /\ resp.status = 400
    /\ resp.json.error \in UserMissingMsgs
    /\ Len(bookings) >= 2

----------------------------------------------------------------------------
(* how often booking b occurs in the list seq *)
Occurrences(seq, b) == Cardinality({i \in 1..Len(seq) : seq[i] = b})

(* C19: between requests the ledger and the cars' booking lists agree:     *)
(* each booking of the ledger is once in the list of the car it references *)
(* and in no other list, and each entry of a car's list references that    *)
(* car and is the booking the ledger holds under its id.                   *)
C19_LedgerAgreesWithCars ==
    /\ \A i \in 1..Len(bookings) :
         \A k \in 1..Len(cars) :
            Occurrences(cars[k].bookings, bookings[i])
               = IF cars[k].id = bookings[i].car THEN 1 ELSE 0
    /\ \A k \in 1..Len(cars) :
         \A j \in 1..Len(cars[k].bookings) :
            /\ cars[k].bookings[j].car = cars[k].id
            /\ DictGet(bookings, cars[k].bookings[j].id) = cars[k].bookings[j]

(* a booking has just been created and two different cars hold one each    *)
C19_Witness ==
    /\ call = "POST /book"
    /\ resp.status = 201
    /\ Len(bookings) = 2
    /\ bookings[1].car # bookings[2].car

====
